---- MODULE Spec2Model ----
(***************************************************************************)
(* EcoCreditX: the MicroCredit ledger contract (src/MicroCredit.sol).      *)
(*                                                                         *)
(* One action per external entry point.  A transaction either runs to its  *)
(* end or reverts; a revert restores the storage and the payment holdings  *)
(* of the state before the call, and only lastCall records that the call   *)
(* was made.  Quantities are the contract's integers (credits scaled by    *)
(* 10^DECIMALS, payments in the smallest currency unit).  The inherited    *)
(* ERC20 transfer is modelled; the inherited allowances and the transfer   *)
(* of ownership are not, so the owner is the deployer throughout.          *)
(***************************************************************************)
EXTENDS Integers, FiniteSets, Sequences, TLC

(***************************************************************************)
(* Bounds of the model.                                                    *)
(***************************************************************************)
\* the supply cap in whole credits, scaled down from 100_000_000
SupplyCap == 2
\* width of the contract's unsigned integers, scaled down from 256
UintBits == 16
\* payment units every sending account starts with
InitialFunds == 2
\* actions the user of the client takes in one session
MaxClicks == 2

(***************************************************************************)
(* Accounts.  ZERO is address(0); SELF is the address of the MicroCredit   *)
(* contract, which has no receive or fallback function; VAULT is a         *)
(* contract wallet without a payable receive function; ALICE deploys the   *)
(* contract and BOB is another externally owned account.                   *)
(***************************************************************************)
ZERO == "0x0"
SELF == "MicroCredit"
ALICE == "alice"
BOB == "bob"
VAULT == "vault"

Address == {ZERO, SELF, ALICE, BOB, VAULT}
\* accounts whose code rejects a plain payment
Rejecting == {SELF, VAULT}

DECIMALS == 2
MAX_SUPPLY == SupplyCap * 10^DECIMALS
UINT_MAX == 2^UintBits - 1

(***************************************************************************)
(* The arguments the calls are made with.                                  *)
(***************************************************************************)
\* accounts that send transactions
Senders == {ALICE, BOB, VAULT}
Recipients == {ZERO, ALICE, BOB}
ProjectIds == {"", "P1"}
\* the keys of the projects mapping the model follows
ProjectKeys == ProjectIds \cup {"P2", "P3"}
\* one lot fits under the cap, two lots exceed it
Lot == (MAX_SUPPLY + 10^DECIMALS) \div 2
Amounts == {0, Lot, 2 * Lot}
Prices == {0, 1, UINT_MAX}
Values == 0..InitialFunds
Reasons == {"", "offset"}
\* (developer, methodology, location) offered to registerProject
Applications == {<<ZERO, "Verra VCS 2023", "Kenya">>,
                 <<SELF, "Verra VCS 2023", "Kenya">>,
                 <<BOB, "Gold Standard", "Brazil">>}

VARIABLES
    _owner,          \* Ownable: the contract owner
    _paused,         \* Pausable: the global switch
    _balances,       \* ERC20: credit balance of every account
    _totalSupply,    \* ERC20: credits in circulation
    totalRetired,    \* credits retired, all accounts
    retiredBalances, \* credits retired per account
    projects,        \* the project registry
    funds,           \* payment holdings (native currency) of every account
    totalMinted,     \* history: credits ever passed to _mint
    lastCall         \* history: the last call made and its outcome

\* The web client (Admin and Marketplace components, ledger adapter).
VARIABLES
    operatorId,          \* hederaClient: the account that signs the calls
    projectsState,       \* Admin: the `projects` state of the component
    ecocreditx_projects, \* localStorage: the persisted project list
    closure,             \* Admin: `projects` as captured by the functions
                         \* of the render that started the polling session
    pc,                  \* Admin: where the submission and its poller are
    pollCount,           \* pollProjectStatus: status queries made
    guardianInstance,    \* the validation service: the submitted instance
    guardianStatus,      \* poll: the last status object received
    message,             \* Admin: the type of the message shown
    txLog,               \* history: the calls made of the adapter's
                         \* state-changing methods and what became of them
    marketProjects,      \* Marketplace: the `projects` state
    userPortfolio,       \* Marketplace: the credits shown as held
    transactions,        \* localStorage: the account's transaction list
    marketMessage,       \* Marketplace: the type of the message shown
    hcsTopicId,          \* adapter: whether a consensus topic is configured
    hcsLog,              \* the messages published to the consensus topic
    clicks,              \* history: the user's actions so far (forms
                         \* submitted, purchases and retirements asked for)
    loading,             \* Admin: the `loading` state
    setupPc,             \* setupDemoProjects: the call it is to make next
    setupIndex,          \* setupDemoProjects: the project it is working on
    scriptPc             \* addRealProject: the call it is to make next

storage == <<_owner, _paused, _balances, _totalSupply, totalRetired,
             retiredBalances, projects, funds, totalMinted>>
ledgerVars == <<_owner, _paused, _balances, _totalSupply, totalRetired,
                retiredBalances, projects, funds, totalMinted, lastCall>>
adminVars == <<projectsState, ecocreditx_projects, closure, pc, pollCount,
               guardianInstance, guardianStatus, message>>
marketVars == <<marketProjects, userPortfolio, transactions, marketMessage,
                hcsTopicId, hcsLog>>
setupVars == <<loading, setupPc, setupIndex, scriptPc>>
clientVars == <<operatorId, adminVars, txLog, marketVars, clicks, setupVars>>
vars == <<ledgerVars, clientVars>>

\* no status received yet; no instance at the service
\* neither setupDemoProjects nor the addRealProject script has been started
SetupUnused ==
    /\ loading = FALSE
    /\ setupPc = "idle"
    /\ setupIndex = 0
    /\ scriptPc = "idle"

NoStatus == [status |-> "", validatedCredits |-> 0]

\* the client before any component is mounted
ClientUnused ==
    /\ operatorId = ALICE
    /\ projectsState = <<>>
    /\ ecocreditx_projects = <<>>
    /\ closure = <<>>
    /\ pc = "idle"
    /\ pollCount = 0
    /\ guardianInstance = NoStatus
    /\ guardianStatus = NoStatus
    /\ message = ""
    /\ txLog = <<>>
    /\ marketProjects = <<>>
    /\ userPortfolio = [credits |-> 0]
    /\ transactions = <<>>
    /\ marketMessage = ""
    /\ hcsTopicId = TRUE
    /\ hcsLog = <<>>
    /\ clicks = 0
    /\ SetupUnused

\* the value of a mapping slot that was never written
NoProject ==
    [projectId |-> "", methodology |-> "", location |-> "",
     totalCredits |-> 0, availableCredits |-> 0, isActive |-> FALSE,
     developer |-> ZERO, pricePerCredit |-> 0]

NoRet == <<>>

\* the contract after its constructor
Deployed ==
    /\ _owner = ALICE
    /\ _paused = FALSE
    /\ _balances = [a \in Address |-> 0]
    /\ _totalSupply = 0
    /\ totalRetired = 0
    /\ retiredBalances = [a \in Address |-> 0]
    /\ projects = [p \in ProjectKeys |-> NoProject]
    /\ funds = [a \in Address |-> IF a \in Senders THEN InitialFunds ELSE 0]
    /\ totalMinted = 0
    /\ lastCall = [op |-> "constructor", ok |-> TRUE, err |-> "", ret |-> NoRet]

Init ==
    /\ Deployed
    /\ ClientUnused

\* the call ran to its end
Done(op, ret) ==
    lastCall' = [op |-> op, ok |-> TRUE, err |-> "", ret |-> ret]

\* the call reverted: nothing but the record of the call changes
Revert(op, err) ==
    /\ lastCall' = [op |-> op, ok |-> FALSE, err |-> err, ret |-> NoRet]
    /\ UNCHANGED storage

\* registerProject without the check of line 105
registerProject_err_noDuplicate(sender, projectId, developer, totalCredits) ==
    IF sender # _owner THEN "OwnableUnauthorizedAccount"
    ELSE IF projectId = "" THEN "Invalid project ID"
    ELSE IF developer = ZERO THEN "Invalid developer address"
    ELSE IF ~(totalCredits > 0) THEN "Credits must be greater than 0"
    ELSE ""

\* registerProject without onlyOwner
registerProject_err_noOwner(sender, projectId, developer, totalCredits) ==
    IF projectId = "" THEN "Invalid project ID"
    ELSE IF developer = ZERO THEN "Invalid developer address"
    ELSE IF ~(totalCredits > 0) THEN "Credits must be greater than 0"
    ELSE IF projects[projectId].isActive THEN "Project already registered"
    ELSE ""

(***************************************************************************)
(* registerProject                                                         *)
(***************************************************************************)
\* the first failing check of registerProject, "" when all pass
registerProject_err(sender, projectId, developer, totalCredits) ==
    IF sender # _owner THEN "OwnableUnauthorizedAccount"
    ELSE IF projectId = "" THEN "Invalid project ID"
    ELSE IF developer = ZERO THEN "Invalid developer address"
    ELSE IF ~(totalCredits > 0) THEN "Credits must be greater than 0"
    ELSE IF projects[projectId].isActive THEN "Project already registered"
    ELSE ""

registerProject(sender, projectId, developer, methodology, location, totalCredits, pricePerCredit) ==
    LET err == registerProject_err(sender, projectId, developer, totalCredits)
    IN  IF err # ""
        THEN Revert("registerProject", err)
        ELSE /\ projects' = [projects EXCEPT ![projectId] =
                    [projectId |-> projectId,
                     methodology |-> methodology,
                     location |-> location,
                     totalCredits |-> totalCredits,
                     availableCredits |-> totalCredits,
                     isActive |-> TRUE,
                     developer |-> developer,
                     pricePerCredit |-> pricePerCredit]]
             /\ Done("registerProject", NoRet)
             /\ UNCHANGED <<_owner, _paused, _balances, _totalSupply,
                            totalRetired, retiredBalances, funds, totalMinted>>

(***************************************************************************)
(* ERC20 (OpenZeppelin, imported by the contract): _mint, _burn, transfer  *)
(***************************************************************************)
_mint(account, value) ==
    /\ _balances' = [_balances EXCEPT ![account] = @ + value]
    /\ _totalSupply' = _totalSupply + value
    /\ totalMinted' = totalMinted + value

_burn(account, value) ==
    /\ _balances' = [_balances EXCEPT ![account] = @ - value]
    /\ _totalSupply' = _totalSupply - value

transfer_err(sender, to, value) ==
    IF to = ZERO THEN "ERC20InvalidReceiver"
    ELSE IF _balances[sender] < value THEN "ERC20InsufficientBalance"
    ELSE ""

transfer(sender, to, value) ==
    LET err == transfer_err(sender, to, value)
    IN  IF err # ""
        THEN Revert("transfer", err)
        ELSE /\ _balances' = [a \in Address |->
                    IF a = sender /\ a = to THEN _balances[a]
                    ELSE IF a = sender THEN _balances[a] - value
                    ELSE IF a = to THEN _balances[a] + value
                    ELSE _balances[a]]
             /\ Done("transfer", NoRet)
             /\ UNCHANGED <<_owner, _paused, _totalSupply, totalRetired,
                            retiredBalances, projects, funds, totalMinted>>

\* mint without the check of line 136
mint_err_noAvailable(sender, to, amount, projectId) ==
    IF sender # _owner THEN "OwnableUnauthorizedAccount"
    ELSE IF _paused THEN "EnforcedPause"
    ELSE IF to = ZERO THEN "Cannot mint to zero address"
    ELSE IF ~(amount > 0) THEN "Amount must be greater than 0"
    ELSE IF ~(_totalSupply + amount <= MAX_SUPPLY) THEN "Would exceed max supply"
    ELSE IF ~projects[projectId].isActive THEN "Project not registered"
    ELSE ""

\* mint without the check of line 134
mint_err_noCap(sender, to, amount, projectId) ==
    IF sender # _owner THEN "OwnableUnauthorizedAccount"
    ELSE IF _paused THEN "EnforcedPause"
    ELSE IF to = ZERO THEN "Cannot mint to zero address"
    ELSE IF ~(amount > 0) THEN "Amount must be greater than 0"
    ELSE IF ~projects[projectId].isActive THEN "Project not registered"
    ELSE IF ~(projects[projectId].availableCredits >= amount)
         THEN "Insufficient project credits"
    ELSE ""

(***************************************************************************)
(* mint                                                                    *)
(***************************************************************************)
\* the first failing check of mint, "" when all pass
mint_err(sender, to, amount, projectId) ==
    IF sender # _owner THEN "OwnableUnauthorizedAccount"
    ELSE IF _paused THEN "EnforcedPause"
    ELSE IF to = ZERO THEN "Cannot mint to zero address"
    ELSE IF ~(amount > 0) THEN "Amount must be greater than 0"
    ELSE IF ~(_totalSupply + amount <= MAX_SUPPLY) THEN "Would exceed max supply"
    ELSE IF ~projects[projectId].isActive THEN "Project not registered"
    ELSE IF ~(projects[projectId].availableCredits >= amount)
         THEN "Insufficient project credits"
    ELSE ""

\* mint adding the amount to the project's available credits
mint_addsAvailable(sender, to, amount, projectId) ==
    LET err == mint_err(sender, to, amount, projectId)
    IN  IF err # ""
        THEN Revert("mint", err)
        ELSE /\ projects' = [projects EXCEPT
                    ![projectId].availableCredits = @ + amount]
             /\ _mint(to, amount)
             /\ Done("mint", NoRet)
             /\ UNCHANGED <<_owner, _paused, totalRetired, retiredBalances,
                            funds>>

mint(sender, to, amount, projectId) ==
    LET err == mint_err(sender, to, amount, projectId)
    IN  IF err # ""
        THEN Revert("mint", err)
        ELSE /\ projects' = [projects EXCEPT
                    ![projectId].availableCredits = @ - amount]
             /\ _mint(to, amount)
             /\ Done("mint", NoRet)
             /\ UNCHANGED <<_owner, _paused, totalRetired, retiredBalances,
                            funds>>

\* a payment whose failure is ignored, as an unchecked send would be
payable_transfer_unchecked(f, to, value) ==
    IF f[SELF] < value \/ to \in Rejecting
    THEN [ok |-> TRUE, funds |-> f]
    ELSE [ok |-> TRUE,
          funds |-> [a \in Address |->
                IF a = SELF THEN f[a] - value
                ELSE IF a = to THEN f[a] + value
                ELSE f[a]]]

(***************************************************************************)
(* purchaseCredits                                                         *)
(***************************************************************************)
\* payable(to).transfer(value) made by the contract from the holdings f:
\* the holdings after it, or the failure that reverts the transaction
payable_transfer(f, to, value) ==
    IF f[SELF] < value \/ to \in Rejecting
    THEN [ok |-> FALSE, funds |-> f]
    ELSE [ok |-> TRUE,
          funds |-> [a \in Address |->
                IF a = SELF THEN f[a] - value
                ELSE IF a = to THEN f[a] + value
                ELSE f[a]]]

\* the price without the division by 10**DECIMALS
totalPriceOf_unscaled(amount, pricePerCredit) ==
    amount * pricePerCredit

\* the price scaled down by one decimal digit too many
totalPriceOf_wrongScale(amount, pricePerCredit) ==
    (amount * pricePerCredit) \div (10^(DECIMALS + 1))

\* amount * pricePerCredit / (10**DECIMALS), in integers
totalPriceOf(amount, pricePerCredit) ==
    (amount * pricePerCredit) \div (10^DECIMALS)

\* purchaseCredits without the check of line 155
purchaseCredits_err_noAvailable(projectId, amount, value) ==
    LET project == projects[projectId]
    IN  IF _paused THEN "EnforcedPause"
        ELSE IF ~project.isActive THEN "Project not active"
        ELSE IF ~(amount > 0) THEN "Amount must be greater than 0"
        ELSE IF amount * project.pricePerCredit > UINT_MAX THEN "Panic(0x11)"
        ELSE IF ~(value >= totalPriceOf(amount, project.pricePerCredit))
             THEN "Insufficient payment"
        ELSE ""

\* the first failing check of purchaseCredits up to line 158, "" when all pass
purchaseCredits_err(projectId, amount, value) ==
    LET project == projects[projectId]
    IN  IF _paused THEN "EnforcedPause"
        ELSE IF ~project.isActive THEN "Project not active"
        ELSE IF ~(amount > 0) THEN "Amount must be greater than 0"
        ELSE IF ~(project.availableCredits >= amount)
             THEN "Insufficient credits available"
        ELSE IF amount * project.pricePerCredit > UINT_MAX THEN "Panic(0x11)"
        ELSE IF ~(value >= totalPriceOf(amount, project.pricePerCredit))
             THEN "Insufficient payment"
        ELSE ""

purchaseCredits(sender, projectId, amount, value) ==
    /\ value <= funds[sender]
    /\ LET project == projects[projectId]
           err == purchaseCredits_err(projectId, amount, value)
           totalPrice == totalPriceOf(amount, project.pricePerCredit)
           \* the attached payment is credited to the contract with the call
           received == [a \in Address |->
                IF a = sender THEN funds[a] - value
                ELSE IF a = SELF THEN funds[a] + value
                ELSE funds[a]]
           paid == payable_transfer(received, project.developer, totalPrice)
           refunded == IF value > totalPrice
                       THEN payable_transfer(paid.funds, sender,
                                             value - totalPrice)
                       ELSE paid
       IN  IF err # ""
           THEN Revert("purchaseCredits", err)
           ELSE IF ~paid.ok \/ ~refunded.ok
           THEN Revert("purchaseCredits", "transfer failed")
           ELSE /\ projects' = [projects EXCEPT
                       ![projectId].availableCredits = @ - amount]
                /\ _mint(sender, amount)
                /\ funds' = refunded.funds
                /\ Done("purchaseCredits", NoRet)
                /\ UNCHANGED <<_owner, _paused, totalRetired, retiredBalances>>

\* retire without the check of line 186
retire_err_noBalance(sender, amount, reason) ==
    IF _paused THEN "EnforcedPause"
    ELSE IF ~(amount > 0) THEN "Amount must be greater than 0"
    ELSE IF reason = "" THEN "Retirement reason required"
    ELSE ""

\* retire without whenNotPaused
retire_err_noPause(sender, amount, reason) ==
    IF ~(amount > 0) THEN "Amount must be greater than 0"
    ELSE IF ~(_balances[sender] >= amount) THEN "Insufficient balance"
    ELSE IF reason = "" THEN "Retirement reason required"
    ELSE ""

(***************************************************************************)
(* retire                                                                  *)
(***************************************************************************)
\* the first failing check of retire, "" when all pass
retire_err(sender, amount, reason) ==
    IF _paused THEN "EnforcedPause"
    ELSE IF ~(amount > 0) THEN "Amount must be greater than 0"
    ELSE IF ~(_balances[sender] >= amount) THEN "Insufficient balance"
    ELSE IF reason = "" THEN "Retirement reason required"
    ELSE ""

\* retire without the burn of line 190: the retired credits stay spendable
retire_noBurn(sender, amount, reason) ==
    LET err == retire_err(sender, amount, reason)
    IN  IF err # ""
        THEN Revert("retire", err)
        ELSE /\ totalRetired' = totalRetired + amount
             /\ retiredBalances' = [retiredBalances EXCEPT
                    ![sender] = @ + amount]
             /\ Done("retire", NoRet)
             /\ UNCHANGED <<_owner, _paused, projects, funds, totalMinted,
                            _balances, _totalSupply>>

retire(sender, amount, reason) ==
    LET err == retire_err(sender, amount, reason)
    IN  IF err # ""
        THEN Revert("retire", err)
        ELSE /\ _burn(sender, amount)
             /\ totalRetired' = totalRetired + amount
             /\ retiredBalances' = [retiredBalances EXCEPT
                    ![sender] = @ + amount]
             /\ Done("retire", NoRet)
             /\ UNCHANGED <<_owner, _paused, projects, funds, totalMinted>>

(***************************************************************************)
(* Read-only queries                                                       *)
(***************************************************************************)
getProject(projectId) ==
    /\ Done("getProject", projects[projectId])
    /\ UNCHANGED storage

getRetiredBalance(account) ==
    /\ Done("getRetiredBalance", retiredBalances[account])
    /\ UNCHANGED storage

\* the statistics with the registered projects counted
getPlatformStats_countsProjects ==
    /\ Done("getPlatformStats",
            <<_totalSupply, totalRetired,
              Cardinality({p \in ProjectKeys : projects[p].isActive})>>)
    /\ UNCHANGED storage

getPlatformStats ==
    /\ Done("getPlatformStats", <<_totalSupply, totalRetired, 0>>)
    /\ UNCHANGED storage

(***************************************************************************)
(* updateProjectPrice                                                      *)
(***************************************************************************)
updateProjectPrice_err_noDeveloper(sender, projectId, newPrice) ==
    IF ~projects[projectId].isActive THEN "Project not active"
    ELSE IF ~(newPrice > 0) THEN "Price must be greater than 0"
    ELSE ""

updateProjectPrice_err(sender, projectId, newPrice) ==
    IF ~projects[projectId].isActive THEN "Project not active"
    ELSE IF sender # projects[projectId].developer
         THEN "Only project developer"
    ELSE IF ~(newPrice > 0) THEN "Price must be greater than 0"
    ELSE ""

updateProjectPrice(sender, projectId, newPrice) ==
    LET err == updateProjectPrice_err(sender, projectId, newPrice)
    IN  IF err # ""
        THEN Revert("updateProjectPrice", err)
        ELSE /\ projects' = [projects EXCEPT
                    ![projectId].pricePerCredit = newPrice]
             /\ Done("updateProjectPrice", NoRet)
             /\ UNCHANGED <<_owner, _paused, _balances, _totalSupply,
                            totalRetired, retiredBalances, funds, totalMinted>>

(***************************************************************************)
(* pause, unpause                                                          *)
(***************************************************************************)
pause_err(sender) ==
    IF sender # _owner THEN "OwnableUnauthorizedAccount"
    ELSE IF _paused THEN "EnforcedPause"
    ELSE ""

pause(sender) ==
    LET err == pause_err(sender)
    IN  IF err # ""
        THEN Revert("pause", err)
        ELSE /\ _paused' = TRUE
             /\ Done("pause", NoRet)
             /\ UNCHANGED <<_owner, _balances, _totalSupply, totalRetired,
                            retiredBalances, projects, funds, totalMinted>>

unpause_err(sender) ==
    IF sender # _owner THEN "OwnableUnauthorizedAccount"
    ELSE IF ~_paused THEN "ExpectedPause"
    ELSE ""

unpause(sender) ==
    LET err == unpause_err(sender)
    IN  IF err # ""
        THEN Revert("unpause", err)
        ELSE /\ _paused' = FALSE
             /\ Done("unpause", NoRet)
             /\ UNCHANGED <<_owner, _balances, _totalSupply, totalRetired,
                            retiredBalances, projects, funds, totalMinted>>

(***************************************************************************)
(* withdraw                                                                *)
(***************************************************************************)
withdraw(sender) ==
    LET balance == funds[SELF]
        sent == payable_transfer(funds, _owner, balance)
    IN  IF sender # _owner
        THEN Revert("withdraw", "OwnableUnauthorizedAccount")
        ELSE IF ~(balance > 0)
        THEN Revert("withdraw", "No balance to withdraw")
        ELSE IF ~sent.ok
        THEN Revert("withdraw", "transfer failed")
        ELSE /\ funds' = sent.funds
             /\ Done("withdraw", NoRet)
             /\ UNCHANGED <<_owner, _paused, _balances, _totalSupply,
                            totalRetired, retiredBalances, projects,
                            totalMinted>>

\* the calls any account may make of the contract; the client stands by
Next ==
    \/ /\ \E s \in Senders, p \in ProjectIds, ap \in Applications,
             t \in Amounts, pr \in Prices :
             registerProject(s, p, ap[1], ap[2], ap[3], t, pr)
       /\ UNCHANGED clientVars
    \/ /\ \E s \in Senders, to \in Recipients, a \in Amounts,
             p \in ProjectIds :
             mint(s, to, a, p)
       /\ UNCHANGED clientVars
    \/ /\ \E s \in Senders, p \in ProjectIds, a \in Amounts, v \in Values :
             purchaseCredits(s, p, a, v)
       /\ UNCHANGED clientVars
    \/ /\ \E s \in Senders, a \in Amounts, r \in Reasons : retire(s, a, r)
       /\ UNCHANGED clientVars
    \/ /\ \E s \in Senders, to \in Recipients, a \in Amounts :
             transfer(s, to, a)
       /\ UNCHANGED clientVars
    \/ /\ \E p \in ProjectIds : getProject(p)
       /\ UNCHANGED clientVars
    \/ /\ \E a \in Senders : getRetiredBalance(a)
       /\ UNCHANGED clientVars
    \/ /\ getPlatformStats
       /\ UNCHANGED clientVars
    \/ /\ \E s \in Senders, p \in ProjectIds, pr \in Prices :
             updateProjectPrice(s, p, pr)
       /\ UNCHANGED clientVars
    \/ /\ \E s \in Senders : pause(s)
       /\ UNCHANGED clientVars
    \/ /\ \E s \in Senders : unpause(s)
       /\ UNCHANGED clientVars
    \/ /\ \E s \in Senders : withdraw(s)
       /\ UNCHANGED clientVars

Spec == Init /\ [][Next]_vars

(***************************************************************************)
(* Properties of the ledger contract.                                      *)
(*                                                                         *)
(* A property of one entry point is stated over the steps that are a call  *)
(* of it: lastCall' names the entry point and the outcome, and the         *)
(* arguments are those for which the step satisfies the call's action.     *)
(* A call fails or succeeds, so "calls with arguments in X fail and change *)
(* nothing" is checked as: a failed call changes nothing, and a call that  *)
(* succeeded was made with arguments outside X.                            *)
(***************************************************************************)
RECURSIVE SumOver(_, _)
SumOver(f, S) ==
    IF S = {} THEN 0
    ELSE LET x == CHOOSE y \in S : TRUE
         IN  f[x] + SumOver(f, S \ {x})

\* C1: in every reachable state, every project's availableCredits is at least
\* 0 and at most its totalCredits.
C1_AvailableWithinTotal ==
    \A p \in ProjectIds :
        /\ projects[p].availableCredits >= 0
        /\ projects[p].availableCredits <= projects[p].totalCredits

\* a project whose credits were all drawn, partly by mint and partly by purchase
C1_Witness ==
    /\ lastCall.op = "purchaseCredits"
    /\ lastCall.ok
    /\ projects["P1"].totalCredits = 2 * Lot
    /\ projects["P1"].availableCredits = 0
    /\ _balances[ALICE] = Lot
    /\ _balances[VAULT] = Lot

\* C2: in every reachable state the sum of all balances is at most the credits
\* ever minted, and the credits ever minted are at most MAX_SUPPLY.
C2_MintedWithinCap ==
    /\ SumOver(_balances, Address) <= totalMinted
    /\ totalMinted <= MAX_SUPPLY

\* C3: a successful retire(amount, reason) lowers the caller's balance by
\* amount and raises the caller's retired counter by amount; a retire of more
\* than the caller's balance fails and changes no balance, no retired counter,
\* nor totalRetired, nor the total supply.
C3_RetireExact ==
    [][lastCall'.op = "retire" =>
        \A s \in Senders, a \in Amounts, r \in Reasons :
            retire(s, a, r) =>
                /\ lastCall'.ok =>
                      /\ _balances'[s] = _balances[s] - a
                      /\ retiredBalances'[s] = retiredBalances[s] + a
                /\ a > _balances[s] =>
                      /\ ~lastCall'.ok
                      /\ UNCHANGED <<_balances, retiredBalances,
                                     totalRetired, _totalSupply>>]_vars

\* BOB retired one lot of the two he held
C3_Witness ==
    /\ lastCall.op = "retire"
    /\ lastCall.ok
    /\ _balances[BOB] = Lot
    /\ retiredBalances[BOB] = Lot

\* C4: a purchaseCredits call whose payment is below amount * pricePerCredit
\* divided by 100 (in integers) fails, and a failed purchaseCredits leaves all
\* balances, the project records and all payment holdings unchanged.
C4_UnderpaidPurchaseFails ==
    [][lastCall'.op = "purchaseCredits" =>
        IF lastCall'.ok
        THEN \A s \in Senders, p \in ProjectIds, a \in Amounts, v \in Values :
                purchaseCredits(s, p, a, v) =>
                    ~(v < (a * projects[p].pricePerCredit) \div 100)
        ELSE UNCHANGED <<_balances, projects, funds>>]_vars

\* an underpaid purchase of a priced project was turned down
C4_Witness ==
    /\ lastCall.op = "purchaseCredits"
    /\ lastCall.err = "Insufficient payment"
    /\ projects["P1"].pricePerCredit = 1
    /\ projects["P1"].availableCredits = Lot

\* C5: a successful purchaseCredits lowers availableCredits by amount, raises
\* the buyer's balance by amount, moves exactly the total price from the buyer
\* to the developer and leaves nothing with the contract; a purchaseCredits
\* that fails at any step, the two payments included, shows none of it.
C5_PurchaseAllOrNothing ==
    [][lastCall'.op = "purchaseCredits" =>
        IF lastCall'.ok
        THEN \A s \in Senders, p \in ProjectIds, a \in Amounts, v \in Values :
                purchaseCredits(s, p, a, v) =>
                    LET dev == projects[p].developer
                        price == (a * projects[p].pricePerCredit) \div 100
                    IN  /\ projects'[p].availableCredits =
                              projects[p].availableCredits - a
                        /\ _balances'[s] = _balances[s] + a
                        /\ \A x \in Address :
                              funds'[x] = funds[x]
                                  + (IF x = dev THEN price ELSE 0)
                                  - (IF x = s THEN price ELSE 0)
        ELSE UNCHANGED <<projects, _balances, _totalSupply, funds>>]_vars

\* ALICE bought a lot for 1 from BOB's project, overpaying or not
C5_Witness ==
    /\ lastCall.op = "purchaseCredits"
    /\ lastCall.ok
    /\ projects["P1"].developer = BOB
    /\ _balances[ALICE] = Lot
    /\ funds[ALICE] = InitialFunds - 1
    /\ funds[BOB] = InitialFunds + 1
    /\ funds[SELF] = 0

\* C6: a purchaseCredits call for more than the project's availableCredits,
\* for an amount of 0, or for a project that is not active is rejected, and a
\* rejected call leaves balances, project records and total supply unchanged.
C6_BadPurchaseRejected ==
    [][lastCall'.op = "purchaseCredits" =>
        IF lastCall'.ok
        THEN \A s \in Senders, p \in ProjectIds, a \in Amounts, v \in Values :
                purchaseCredits(s, p, a, v) =>
                    /\ a <= projects[p].availableCredits
                    /\ a > 0
                    /\ projects[p].isActive
        ELSE UNCHANGED <<_balances, projects, _totalSupply>>]_vars

\* a purchase of two lots from a project with one lot left was rejected
C6_Witness ==
    /\ lastCall.op = "purchaseCredits"
    /\ lastCall.err = "Insufficient credits available"
    /\ projects["P1"].availableCredits = Lot
    /\ projects["P1"].totalCredits = 2 * Lot

\* C7: a registerProject call for an id that is active fails and leaves that
\* project's record as it was.
C7_SecondRegistrationRejected ==
    [][lastCall'.op = "registerProject" =>
        IF lastCall'.ok
        THEN \A s \in Senders, p \in ProjectIds, ap \in Applications,
                t \in Amounts, pr \in Prices :
                registerProject(s, p, ap[1], ap[2], ap[3], t, pr) =>
                    ~projects[p].isActive
        ELSE \A p \in ProjectIds : projects'[p] = projects[p]]_vars

\* a second registration was turned down after credits had been drawn
C7_Witness ==
    /\ lastCall.op = "registerProject"
    /\ lastCall.err = "Project already registered"
    /\ projects["P1"].availableCredits < projects["P1"].totalCredits
    /\ _totalSupply > 0

\* C8: registerProject succeeds only for the owner, an id that is not active,
\* a developer other than address(0) and totalCredits > 0, and fails without
\* a change of state otherwise; on success the project is active with
\* availableCredits = totalCredits; the pause switch never makes it fail.
C8_RegisterProjectGuards ==
    [][lastCall'.op = "registerProject" =>
        /\ lastCall'.err # "EnforcedPause"
        /\ IF lastCall'.ok
           THEN \A s \in Senders, p \in ProjectIds, ap \in Applications,
                   t \in Amounts, pr \in Prices :
                   registerProject(s, p, ap[1], ap[2], ap[3], t, pr) =>
                       /\ s = _owner
                       /\ ~projects[p].isActive
                       /\ ap[1] # ZERO
                       /\ t > 0
                       /\ projects'[p].isActive
                       /\ projects'[p].totalCredits = t
                       /\ projects'[p].availableCredits = t
           ELSE UNCHANGED storage]_vars

\* a project was registered while the contract was paused
C8_Witness ==
    /\ lastCall.op = "registerProject"
    /\ lastCall.ok
    /\ _paused
    /\ projects["P1"].isActive
    /\ projects["P1"].availableCredits = projects["P1"].totalCredits

\* C9: mint succeeds only for the owner, amount > 0, an active project with
\* availableCredits >= amount and totalSupply + amount <= MAX_SUPPLY, and fails
\* without a change of state otherwise; on success availableCredits falls by
\* amount and the recipient's balance rises by amount.
C9_MintGuards ==
    [][lastCall'.op = "mint" =>
        IF lastCall'.ok
        THEN \A s \in Senders, to \in Recipients, a \in Amounts,
                p \in ProjectIds :
                mint(s, to, a, p) =>
                    /\ s = _owner
                    /\ a > 0
                    /\ projects[p].isActive
                    /\ projects[p].availableCredits >= a
                    /\ _totalSupply + a <= MAX_SUPPLY
                    /\ projects'[p].availableCredits =
                          projects[p].availableCredits - a
                    /\ _balances'[to] = _balances[to] + a
        ELSE UNCHANGED storage]_vars

\* the owner minted a lot to BOB
C9_Witness ==
    /\ lastCall.op = "mint"
    /\ lastCall.ok
    /\ _balances[BOB] = Lot
    /\ totalMinted = Lot
    /\ projects["P1"].availableCredits = projects["P1"].totalCredits - Lot

\* C10: pause and unpause succeed only for the owner and set and clear the
\* switch; while paused every mint, purchaseCredits and retire fails without
\* a change of state; registerProject never fails for the pause and the
\* queries always succeed; while not paused no call fails for the pause.
C10_PauseSwitch ==
    [][/\ (lastCall'.op \in {"pause", "unpause"} /\ lastCall'.ok) =>
              \A s \in Senders : (pause(s) \/ unpause(s)) => s = _owner
       /\ (lastCall'.op = "pause" /\ lastCall'.ok) => _paused'
       /\ (lastCall'.op = "unpause" /\ lastCall'.ok) => ~_paused'
       /\ (_paused /\ lastCall'.op \in {"mint", "purchaseCredits", "retire"}) =>
              /\ ~lastCall'.ok
              /\ UNCHANGED storage
       /\ (~_paused /\ lastCall'.op \in {"mint", "purchaseCredits", "retire"}) =>
              lastCall'.err # "EnforcedPause"
       /\ lastCall'.op = "registerProject" => lastCall'.err # "EnforcedPause"
       /\ lastCall'.op \in {"getProject", "getRetiredBalance",
                            "getPlatformStats"} =>
              /\ lastCall'.ok
              /\ UNCHANGED storage]_vars

\* a retire by a holder of credits was turned down because of the pause
C10_Witness ==
    /\ lastCall.op = "retire"
    /\ lastCall.err = "EnforcedPause"
    /\ _paused
    /\ _balances[BOB] > 0

(***************************************************************************)
(* C11: updateProjectPrice(id, newPrice) sets the project's price to       *)
(* newPrice when the caller is the project's registered developer, the     *)
(* project is active and newPrice > 0; every other call of it (another     *)
(* account, the contract owner included, an inactive project, a price of   *)
(* 0) fails and leaves every project, so the price, as it was.             *)
(***************************************************************************)
C11_UpdatePriceGuards ==
    [][lastCall'.op = "updateProjectPrice" =>
        \A s \in Senders, p \in ProjectIds, pr \in Prices :
            updateProjectPrice(s, p, pr) =>
                IF /\ projects[p].isActive
                   /\ s = projects[p].developer
                   /\ pr > 0
                THEN /\ lastCall'.ok
                     /\ projects'[p].pricePerCredit = pr
                ELSE /\ ~lastCall'.ok
                     /\ projects' = projects]_vars

\* The owner, who is not the developer of the active project, was refused.
C11_Witness ==
    /\ lastCall.op = "updateProjectPrice"
    /\ lastCall.err = "Only project developer"
    /\ projects["P1"].isActive
    /\ projects["P1"].developer # _owner
    /\ projects["P1"].pricePerCredit = UINT_MAX

(***************************************************************************)
(* The end-to-end scenario: the owner registers project "P1" with          *)
(* totalCredits 1000 and price 5, with itself as the developer, and mints  *)
(* 200 to itself; buyer BOB, who holds 250 in payment currency, purchases  *)
(* 50 and retires 20.  The calls are the contract's entry points with the  *)
(* numbers of the scenario as their arguments, in any order and any number *)
(* of times, with an exact payment as a second way to pay.                 *)
(***************************************************************************)
ScenarioInit ==
    /\ _owner = ALICE
    /\ _paused = FALSE
    /\ _balances = [a \in Address |-> 0]
    /\ _totalSupply = 0
    /\ totalRetired = 0
    /\ retiredBalances = [a \in Address |-> 0]
    /\ projects = [p \in ProjectKeys |-> NoProject]
    /\ funds = [a \in Address |-> IF a = BOB THEN 250 ELSE 0]
    /\ totalMinted = 0
    /\ lastCall = [op |-> "constructor", ok |-> TRUE, err |-> "", ret |-> NoRet]
    /\ ClientUnused

ScenarioNext ==
    \/ /\ registerProject(ALICE, "P1", ALICE, "Verra VCS 2023", "Kenya",
                          1000, 5)
       /\ UNCHANGED clientVars
    \/ /\ mint(ALICE, ALICE, 200, "P1")
       /\ UNCHANGED clientVars
    \/ /\ \E v \in {2, 250} : purchaseCredits(BOB, "P1", 50, v)
       /\ UNCHANGED clientVars
    \/ /\ retire(BOB, 20, "offset")
       /\ UNCHANGED clientVars

ScenarioSpec == ScenarioInit /\ [][ScenarioNext]_vars

\* the project as registered, nothing minted or sold yet
ScenarioRegistered ==
    /\ projects["P1"].isActive
    /\ projects["P1"].totalCredits = 1000
    /\ projects["P1"].availableCredits = 1000
    /\ projects["P1"].pricePerCredit = 5
    /\ _balances[ALICE] = 0

\* after the mint of 200 to the owner, nothing sold yet
ScenarioMinted ==
    /\ projects["P1"].availableCredits = 800
    /\ projects["P1"].pricePerCredit = 5
    /\ _balances[ALICE] = 200
    /\ _balances[BOB] = 0
    /\ retiredBalances[BOB] = 0

\* after the purchase of 50 by BOB, nothing retired yet
ScenarioPurchased ==
    /\ projects["P1"].availableCredits = 750
    /\ _balances[BOB] = 50
    /\ retiredBalances[BOB] = 0

\* the mint and the retire of the scenario do what the scenario says
ScenarioMintAndRetire ==
    /\ ScenarioRegistered /\ mint(ALICE, ALICE, 200, "P1") =>
            /\ lastCall'.ok
            /\ projects'["P1"].availableCredits = 800
            /\ _balances'[ALICE] = 200
    /\ ScenarioPurchased /\ retire(BOB, 20, "offset") =>
            /\ lastCall'.ok
            /\ _balances'[BOB] = 30
            /\ retiredBalances'[BOB] = 20

(***************************************************************************)
(* C12 as stated: in the scenario, the mint of 200 leaves availableCredits *)
(* 800 and the owner's balance 200; the purchase of 50 by BOB with payment *)
(* 250 leaves availableCredits 750, BOB's balance 50 and the developer     *)
(* with 250 more; the retire of 20 leaves BOB's balance 30 and BOB's       *)
(* retired counter 20.                                                     *)
(***************************************************************************)
C12_ScenarioAsStated ==
    [][/\ ScenarioMintAndRetire
       /\ ScenarioMinted /\ purchaseCredits(BOB, "P1", 50, 250) =>
            /\ lastCall'.ok
            /\ projects'["P1"].availableCredits = 750
            /\ _balances'[BOB] = 50
            /\ funds'[ALICE] = funds[ALICE] + 250]_vars

(***************************************************************************)
(* C12 amended: as stated, but the developer receives 2, the price of 50   *)
(* hundredths of a credit at 5 per credit (50 * 5 / 100 in integers), and  *)
(* BOB is refunded the other 248 of the payment.                           *)
(***************************************************************************)
C12_ScenarioAmended ==
    [][/\ ScenarioMintAndRetire
       /\ ScenarioMinted /\ purchaseCredits(BOB, "P1", 50, 250) =>
            /\ lastCall'.ok
            /\ projects'["P1"].availableCredits = 750
            /\ _balances'[BOB] = 50
            /\ funds'[ALICE] = funds[ALICE] + 2
            /\ funds'[BOB] = funds[BOB] - 2
            /\ funds'[SELF] = funds[SELF]]_vars

\* the scenario ran to its end: mint, purchase with payment 250, retire
C12_Witness ==
    /\ lastCall.op = "retire" /\ lastCall.ok
    /\ projects["P1"].availableCredits = 750
    /\ _balances[ALICE] = 200
    /\ _balances[BOB] = 30
    /\ retiredBalances[BOB] = 20
    /\ funds[ALICE] = 2
    /\ funds[BOB] = 248

(***************************************************************************)
(* C13: a registered project stays registered and active in every later    *)
(* state; no call changes its id, methodology, location, totalCredits or   *)
(* developer; its availableCredits changes only in a mint or a             *)
(* purchaseCredits call, and then downward; its pricePerCredit changes     *)
(* only in an updateProjectPrice call.                                     *)
(***************************************************************************)
C13_ProjectFrame ==
    [][\A p \in ProjectIds :
        projects[p].isActive =>
            /\ projects'[p].isActive
            /\ projects'[p].projectId = projects[p].projectId
            /\ projects'[p].methodology = projects[p].methodology
            /\ projects'[p].location = projects[p].location
            /\ projects'[p].totalCredits = projects[p].totalCredits
            /\ projects'[p].developer = projects[p].developer
            /\ projects'[p].availableCredits # projects[p].availableCredits =>
                    /\ lastCall'.op \in {"mint", "purchaseCredits"}
                    /\ projects'[p].availableCredits
                            < projects[p].availableCredits
            /\ projects'[p].pricePerCredit # projects[p].pricePerCredit =>
                    lastCall'.op = "updateProjectPrice"]_vars

\* a registered project after a sale, which a second registration then
\* failed to replace
C13_Witness ==
    /\ lastCall.op = "registerProject"
    /\ lastCall.err = "Project already registered"
    /\ projects["P1"].isActive
    /\ projects["P1"].availableCredits < projects["P1"].totalCredits
    /\ projects["P1"].pricePerCredit = 1
    /\ _balances[BOB] > 0

(***************************************************************************)
(* C14: retirement is irreversible.  In every step totalRetired and every  *)
(* account's retired counter stay or grow; what a retire adds to the       *)
(* counters leaves the caller's balance and the supply and reaches no      *)
(* other balance and no project; and credits enter the supply only out of  *)
(* a project's availableCredits, which no call raises, never out of the    *)
(* retired ones.                                                           *)
(***************************************************************************)
C14_RetirementIrreversible ==
    [][/\ totalRetired' >= totalRetired
       /\ \A a \in Address : retiredBalances'[a] >= retiredBalances[a]
       /\ totalRetired' > totalRetired =>
            /\ lastCall'.op = "retire"
            /\ _totalSupply' = _totalSupply - (totalRetired' - totalRetired)
            /\ \A a \in Address : _balances'[a] <= _balances[a]
            /\ projects' = projects
       /\ _totalSupply' > _totalSupply =>
            \E p \in ProjectIds :
                /\ projects[p].isActive
                /\ projects[p].availableCredits - projects'[p].availableCredits
                        = _totalSupply' - _totalSupply
       /\ \A p \in ProjectIds :
            projects[p].isActive =>
                projects'[p].availableCredits <= projects[p].availableCredits
      ]_vars

\* credits were retired, and the project was later sold out: the retired
\* credits went back neither to the holder nor to the project
C14_Witness ==
    /\ totalRetired > 0
    /\ retiredBalances[BOB] = totalRetired
    /\ _balances[BOB] = 0
    /\ lastCall.op = "mint" /\ lastCall.ok
    /\ projects["P1"].availableCredits = 0

(***************************************************************************)
(* The web client.                                                         *)
(*                                                                         *)
(* The ledger adapter (hederaClient) turns a call into one contract        *)
(* transaction signed by operatorId and waits for its receipt.  What       *)
(* becomes of the transaction is the network's choice:                     *)
(*   "unsent"   execute() throws, nothing reached the ledger;              *)
(*   "rejected" the ledger refused it before the contract ran (fee, gas);  *)
(*   "executed" the contract ran it, to its end or to a revert;            *)
(*   "lost"     the contract ran it and getReceipt() failed.               *)
(* A receipt that reports a failure reaches the caller as a returned       *)
(* status or as an exception of getReceipt(); both are modelled.           *)
(*                                                                         *)
(* Quantities of credits are kept small: the contract's supply cap is      *)
(* SupplyCap credits, and the validation service's quantities are scaled   *)
(* with it.  The price of the client's projects is 0, the only price whose *)
(* conversion to tinybars (x 10^8) fits the model's integers.              *)
(***************************************************************************)
Transports == {"unsent", "rejected", "executed", "lost"}

\* what the caller of execute() and getReceipt() learns in this step
getReceipt(transport, throws) ==
    IF transport = "executed" /\ lastCall'.ok THEN "SUCCESS"
    ELSE IF transport \in {"unsent", "lost"} \/ throws THEN "THROWN"
    ELSE "FAILED"

execute_resubmit(call, op, projectId, transport, throws) ==
    /\ IF transport \in {"executed", "lost"}
       THEN call
       ELSE UNCHANGED ledgerVars
    /\ txLog' = Append(txLog,
            [op |-> op, projectId |-> projectId,
             submissions |-> IF transport = "unsent" THEN 0
                             ELSE IF getReceipt(transport, throws) = "SUCCESS"
                                  THEN 1 ELSE 2,
             receipt |-> getReceipt(transport, throws)])

\* contractCallTx.execute and getReceipt of one adapter call: what the
\* ledger does with the transaction, and the record of the call
execute(call, op, projectId, transport, throws) ==
    /\ IF transport \in {"executed", "lost"}
       THEN call
       ELSE UNCHANGED ledgerVars
    /\ txLog' = Append(txLog,
            [op |-> op, projectId |-> projectId,
             submissions |-> IF transport = "unsent" THEN 0 ELSE 1,
             receipt |-> getReceipt(transport, throws)])

\* amount * 100: credits to the contract's 2 decimals
toDecimals(amount) == amount * 100

\* Math.round(pricePerCredit * 1e8): HBAR to tinybars
toTinybars(hbar) == hbar * 10^8

hederaClient_registerProject(projectData, transport, throws) ==
    execute(registerProject(operatorId, projectData.projectId, operatorId,
                            projectData.methodology, projectData.location,
                            toDecimals(projectData.totalCredits),
                            toTinybars(projectData.pricePerCredit)),
            "registerProject", projectData.projectId, transport, throws)

hederaClient_mintCredits(toAddress, amount, projectId, transport, throws) ==
    execute(mint(operatorId, toAddress, toDecimals(amount), projectId),
            "mint", projectId, transport, throws)

(***************************************************************************)
(* The validation service, as guardianClient presents it.                  *)
(***************************************************************************)
statusOptions ==
    <<"SUBMITTED", "UNDER_REVIEW", "VALIDATION", "APPROVED", "REJECTED">>

\* the credits the mock response grants, and those a validation may grant
MockValidatedCredits == SupplyCap \div 2
ValidatedCredits == {0, MockValidatedCredits}

\* the ten-second periods of the clock the mock response looks at
ClockPeriods == 0..4

\* what becomes of a status request: the service answers with the
\* instance's status, answers without a status, or the request fails
Answers == {"status", "nostatus", "failed"}

\* the service moves the instance one stage on; a validation ends in
\* approval, with the credits it grants, or in rejection
Guardian_review(validatedCredits) ==
    /\ guardianInstance.status \in {"SUBMITTED", "UNDER_REVIEW", "VALIDATION"}
    /\ guardianInstance' =
            IF guardianInstance.status = "SUBMITTED"
            THEN [status |-> "UNDER_REVIEW", validatedCredits |-> 0]
            ELSE IF guardianInstance.status = "UNDER_REVIEW"
            THEN [status |-> "VALIDATION", validatedCredits |-> 0]
            ELSE IF validatedCredits > 0
            THEN [status |-> "APPROVED", validatedCredits |-> validatedCredits]
            ELSE [status |-> "REJECTED", validatedCredits |-> 0]
    /\ UNCHANGED <<ledgerVars, operatorId, projectsState, ecocreditx_projects,
                   closure, pc, pollCount, guardianStatus, message, txLog,
                   marketVars, clicks,
                   setupVars>>

\* getProjectStatus: the service's answer, or when the request fails the
\* mock status chosen by the clock
getProjectStatus(answer, periodNow) ==
    IF answer = "status" /\ guardianInstance # NoStatus
    THEN guardianInstance
    ELSE IF answer = "nostatus" /\ guardianInstance # NoStatus
    THEN NoStatus
    ELSE LET currentStatus == statusOptions[(periodNow % 5) + 1]
         IN  [status |-> currentStatus,
              validatedCredits |-> IF currentStatus = "APPROVED"
                                   THEN MockValidatedCredits ELSE 0]

\* String.prototype.toLowerCase on the status names
toLowerCase(str) ==
    CASE str = "SUBMITTED" -> "submitted"
      [] str = "UNDER_REVIEW" -> "under_review"
      [] str = "VALIDATION" -> "validation"
      [] str = "APPROVED" -> "approved"
      [] str = "REJECTED" -> "rejected"
      [] OTHER -> str

(***************************************************************************)
(* Admin: the local project list                                           *)
(***************************************************************************)
\* a project of the list, as far as the poller reads or writes it
LocalProject(projectId, status, estimatedCredits) ==
    [projectId |-> projectId, status |-> status,
     methodology |-> "VCS", location |-> "Kenya",
     estimatedCredits |-> estimatedCredits, pricePerCredit |-> 0,
     validatedCredits |-> 0, contractRegistered |-> FALSE]

\* the lists localStorage may hold when the component is mounted: none, a
\* project of an earlier submission, and a project under the very id the
\* next submission will draw (the id is "ECCX_" and the clock's reading,
\* and the clock can repeat a reading when it is set back)
SavedLists ==
    {<<>>,
     <<LocalProject("P0", "approved", 1)>>,
     <<LocalProject("P1", "submitted", 1)>>}

\* { ...p, ...updates }
Merge(p, updates) ==
    [k \in DOMAIN p |-> IF k \in DOMAIN updates THEN updates[k] ELSE p[k]]

\* saveProject, in the render whose list is `list`
saveProject(list, project) ==
    LET updatedProjects == Append(list, project)
    IN  /\ projectsState' = updatedProjects
        /\ ecocreditx_projects' = updatedProjects

\* updateProject, in the render whose list is `list`
updateProject(list, projectId, updates) ==
    LET updatedProjects ==
            [i \in DOMAIN list |->
                IF list[i].projectId = projectId
                THEN Merge(list[i], updates) ELSE list[i]]
    IN  /\ projectsState' = updatedProjects
        /\ ecocreditx_projects' = updatedProjects

\* projects.find(p => p.projectId === projectId): the position found, if any
find(list, projectId) ==
    {i \in DOMAIN list :
        /\ list[i].projectId = projectId
        /\ \A j \in DOMAIN list : list[j].projectId = projectId => i <= j}

(***************************************************************************)
(* Admin: submission, polling, approval                                    *)
(***************************************************************************)
maxPolls == 20

\* the project id the submission draws
NewProjectId == "P1"

\* submitProjectToGuardian: guardianClient.submitProject reports success
\* whether the service took the project or not; the project is saved and
\* the first poll is scheduled
submitProjectToGuardian(estimatedCredits, accepted) ==
    /\ pc = "idle"
    /\ clicks < MaxClicks
    /\ clicks' = clicks + 1
    /\ guardianInstance' =
            IF accepted
            THEN [status |-> "SUBMITTED", validatedCredits |-> 0]
            ELSE NoStatus
    /\ closure' = projectsState
    /\ saveProject(projectsState,
                   LocalProject(NewProjectId, "submitted", estimatedCredits))
    /\ message' = "success"
    /\ pollCount' = 0
    /\ pc' = "polling"
    /\ UNCHANGED <<ledgerVars, operatorId, guardianStatus, txLog, marketVars,
                   setupVars>>

\* poll taking a rejection for an approval
poll_rejectedApproves(answer, periodNow) ==
    LET status == getProjectStatus(answer, periodNow)
    IN  /\ pc = "polling"
        /\ pollCount' = pollCount + 1
        /\ guardianStatus' = status
        /\ IF status.status = ""
           THEN /\ pc' = "stopped"
                /\ UNCHANGED <<projectsState, ecocreditx_projects, message>>
           ELSE /\ updateProject(closure, NewProjectId,
                        [status |-> toLowerCase(status.status),
                         validatedCredits |-> status.validatedCredits])
                /\ IF status.status \in {"APPROVED", "REJECTED"}
                   THEN pc' = "approval" /\ UNCHANGED message
                   ELSE IF pollCount' < maxPolls
                   THEN pc' = "polling" /\ UNCHANGED message
                   ELSE pc' = "stopped" /\ UNCHANGED message
        /\ UNCHANGED <<ledgerVars, operatorId, closure, guardianInstance,
                       txLog, marketVars, clicks,
                   setupVars>>

\* poll comparing the count with <= : one query too many
poll_oneMore(answer, periodNow) ==
    LET status == getProjectStatus(answer, periodNow)
    IN  /\ pc = "polling"
        /\ pollCount' = pollCount + 1
        /\ guardianStatus' = status
        /\ IF status.status = ""
           THEN /\ pc' = "stopped"
                /\ UNCHANGED <<projectsState, ecocreditx_projects, message>>
           ELSE /\ updateProject(closure, NewProjectId,
                        [status |-> toLowerCase(status.status),
                         validatedCredits |-> status.validatedCredits])
                /\ IF status.status = "APPROVED"
                   THEN pc' = "approval" /\ UNCHANGED message
                   ELSE IF status.status = "REJECTED"
                   THEN pc' = "stopped" /\ message' = "error"
                   ELSE IF pollCount' <= maxPolls
                   THEN pc' = "polling" /\ UNCHANGED message
                   ELSE pc' = "stopped" /\ UNCHANGED message
        /\ UNCHANGED <<ledgerVars, operatorId, closure, guardianInstance,
                       txLog, marketVars, clicks,
                   setupVars>>

\* poll: one firing of the timer
poll(answer, periodNow) ==
    LET status == getProjectStatus(answer, periodNow)
    IN  /\ pc = "polling"
        /\ pollCount' = pollCount + 1
        /\ guardianStatus' = status
        /\ IF status.status = ""
           THEN \* toLowerCase of undefined throws: the catch logs, no timer
                /\ pc' = "stopped"
                /\ UNCHANGED <<projectsState, ecocreditx_projects, message>>
           ELSE /\ updateProject(closure, NewProjectId,
                        [status |-> toLowerCase(status.status),
                         validatedCredits |-> status.validatedCredits])
                /\ IF status.status = "APPROVED"
                   THEN pc' = "approval" /\ UNCHANGED message
                   ELSE IF status.status = "REJECTED"
                   THEN pc' = "stopped" /\ message' = "error"
                   ELSE IF pollCount' < maxPolls
                   THEN pc' = "polling" /\ UNCHANGED message
                   ELSE pc' = "stopped" /\ UNCHANGED message
        /\ UNCHANGED <<ledgerVars, operatorId, closure, guardianInstance,
                       txLog, marketVars, clicks,
                   setupVars>>

\* guardianStatus.validatedCredits || project.estimatedCredits
approvedCredits(project) ==
    IF guardianStatus.validatedCredits # 0
    THEN guardianStatus.validatedCredits
    ELSE project.estimatedCredits

\* handleProjectApproval up to the receipt of registerProject
handleProjectApproval_register(transport, throws) ==
    /\ pc = "approval"
    /\ IF find(closure, NewProjectId) = {}
       THEN /\ pc' = "stopped"
            /\ UNCHANGED <<ledgerVars, message, txLog>>
       ELSE LET project ==
                    closure[CHOOSE i \in find(closure, NewProjectId) : TRUE]
                receipt == getReceipt(transport, throws)
            IN  /\ hederaClient_registerProject(
                        [projectId |-> NewProjectId,
                         methodology |-> project.methodology,
                         location |-> project.location,
                         totalCredits |-> approvedCredits(project),
                         pricePerCredit |-> project.pricePerCredit],
                        transport, throws)
                /\ pc' = IF receipt = "SUCCESS" THEN "minting" ELSE "stopped"
                /\ message' = IF receipt = "THROWN" THEN "error" ELSE message
    /\ UNCHANGED <<operatorId, projectsState, ecocreditx_projects, closure,
                   pollCount, guardianInstance, guardianStatus, marketVars, clicks,
                   setupVars>>

\* handleProjectApproval from mintCredits on
handleProjectApproval_mint(transport, throws) ==
    LET project == closure[CHOOSE i \in find(closure, NewProjectId) : TRUE]
        receipt == getReceipt(transport, throws)
    IN  /\ pc = "minting"
        /\ hederaClient_mintCredits(operatorId, approvedCredits(project),
                                    NewProjectId, transport, throws)
        /\ IF receipt = "THROWN"
           THEN /\ message' = "error"
                /\ UNCHANGED <<projectsState, ecocreditx_projects>>
           ELSE /\ updateProject(closure, NewProjectId,
                        [status |-> "approved", contractRegistered |-> TRUE,
                         validatedCredits |-> guardianStatus.validatedCredits])
                /\ message' = "success"
        /\ pc' = "stopped"
        /\ UNCHANGED <<operatorId, closure, pollCount, guardianInstance,
                       guardianStatus, marketVars, clicks,
                   setupVars>>

\* the contract as deployed and the Admin component as mounted: the list is
\* loaded from localStorage, the adapter signs as the owner or as another
\* account
AdminInit ==
    /\ Deployed
    /\ operatorId \in {ALICE, BOB}
    /\ ecocreditx_projects \in SavedLists
    /\ projectsState = ecocreditx_projects
    /\ closure = <<>>
    /\ pc = "idle"
    /\ pollCount = 0
    /\ guardianInstance = NoStatus
    /\ guardianStatus = NoStatus
    /\ message = ""
    /\ txLog = <<>>
    /\ marketProjects = <<>>
    /\ userPortfolio = [credits |-> 0]
    /\ transactions = <<>>
    /\ marketMessage = ""
    /\ hcsTopicId = TRUE
    /\ hcsLog = <<>>
    /\ clicks = 0
    /\ SetupUnused

AdminNext ==
    \/ \E c \in {1, 2}, accepted \in BOOLEAN :
          submitProjectToGuardian(c, accepted)
    \/ \E vc \in ValidatedCredits : Guardian_review(vc)
    \/ \E answer \in Answers, t \in ClockPeriods : poll(answer, t)
    \/ \E tr \in Transports, throws \in BOOLEAN :
          handleProjectApproval_register(tr, throws)
    \/ \E tr \in Transports, throws \in BOOLEAN :
          handleProjectApproval_mint(tr, throws)

AdminSpec == AdminInit /\ [][AdminNext]_vars

(***************************************************************************)
(* Marketplace: purchase and retirement                                    *)
(***************************************************************************)
\* balance / 100: the contract's 2 decimals to credits
fromDecimals(balance) == balance \div 100

hederaClient_purchaseCredits(projectId, amount, totalPriceTinybars, transport, throws) ==
    execute(purchaseCredits(operatorId, projectId, toDecimals(amount),
                            totalPriceTinybars),
            "purchaseCredits", projectId, transport, throws)

\* logToHCS: the message reaches the topic when a topic is configured and
\* the submission succeeds; every failure is caught and null returned
logToHCS(msg, published) ==
    hcsLog' = IF hcsTopicId /\ published THEN Append(hcsLog, msg) ELSE hcsLog

\* retireCredits publishing its log whatever the receipt says
hederaClient_retireCredits_logsAnyway(amount, reason, transport, throws, published) ==
    /\ execute(retire(operatorId, toDecimals(amount), reason),
               "retireCredits", "", transport, throws)
    /\ logToHCS([account |-> operatorId, amount |-> amount,
                 reason |-> reason, transactionId |-> Len(txLog')],
                published)

\* retireCredits: a receipt that is not SUCCESS is thrown; after a SUCCESS
\* the retirement is logged, and the result is success whatever logToHCS
\* returned
hederaClient_retireCredits(amount, reason, transport, throws, published) ==
    /\ execute(retire(operatorId, toDecimals(amount), reason),
               "retireCredits", "", transport, throws)
    /\ IF getReceipt(transport, throws) = "SUCCESS"
       THEN logToHCS([account |-> operatorId, amount |-> amount,
                      reason |-> reason, transactionId |-> Len(txLog')],
                     published)
       ELSE UNCHANGED hcsLog

\* loadMarketplaceData: the catalogue project, if the contract has it
loadMarketplaceData ==
    IF projects["P1"].isActive
    THEN <<[projectId |-> "P1",
            availableCredits |-> projects["P1"].availableCredits,
            pricePerCredit |-> projects["P1"].pricePerCredit \div 10^8]>>
    ELSE <<>>

\* loadUserPortfolio after this step: getTokenBalance, 0 when the query fails
loadUserPortfolio(queried) ==
    userPortfolio' =
        [credits |-> IF queried
                     THEN fromDecimals(_balances'[operatorId]) ELSE 0]

handlePurchaseCredits(i, purchaseAmount, transport, throws, queried) ==
    LET project == marketProjects[i]
        amount == purchaseAmount
        totalPriceHbar == amount * project.pricePerCredit
        totalPriceTinybars == toTinybars(totalPriceHbar)
        receipt == getReceipt(transport, throws)
    IN  /\ clicks < MaxClicks
        /\ clicks' = clicks + 1
        /\ IF ~(purchaseAmount > 0)
           THEN /\ marketMessage' = "error"
                /\ UNCHANGED <<ledgerVars, txLog, marketProjects,
                               userPortfolio, transactions>>
           ELSE /\ hederaClient_purchaseCredits(project.projectId, amount,
                        totalPriceTinybars, transport, throws)
                /\ IF receipt = "SUCCESS"
                   THEN /\ transactions' =
                            <<[type |-> "purchase",
                               projectId |-> project.projectId,
                               amount |-> amount]>> \o transactions
                        /\ marketMessage' = "success"
                        /\ marketProjects' =
                            [j \in DOMAIN marketProjects |->
                                IF marketProjects[j].projectId
                                        = project.projectId
                                THEN [marketProjects[j] EXCEPT
                                        !.availableCredits = @ - amount]
                                ELSE marketProjects[j]]
                        /\ loadUserPortfolio(queried)
                   ELSE /\ marketMessage' = "error"
                        /\ UNCHANGED <<marketProjects, userPortfolio,
                                       transactions>>
        /\ UNCHANGED <<operatorId, adminVars, hcsTopicId, hcsLog, setupVars>>

handleRetireCredits(retireAmount, retireReason, transport, throws, queried, published) ==
    LET amount == retireAmount
        receipt == getReceipt(transport, throws)
    IN  /\ clicks < MaxClicks
        /\ clicks' = clicks + 1
        /\ IF \/ ~(retireAmount > 0)
              \/ retireReason = ""
              \/ amount > userPortfolio.credits
           THEN /\ marketMessage' = "error"
                /\ UNCHANGED <<ledgerVars, txLog, userPortfolio, transactions,
                               hcsLog>>
           ELSE /\ hederaClient_retireCredits(amount, retireReason,
                                              transport, throws, published)
                /\ IF receipt = "SUCCESS"
                   THEN /\ transactions' =
                            <<[type |-> "retirement", projectId |-> "",
                               amount |-> amount]>> \o transactions
                        /\ marketMessage' = "success"
                        /\ loadUserPortfolio(queried)
                   ELSE /\ marketMessage' = "error"
                        /\ UNCHANGED <<userPortfolio, transactions>>
        /\ UNCHANGED <<operatorId, adminVars, marketProjects, hcsTopicId,
                       setupVars>>

(***************************************************************************)
(* The client as a whole                                                   *)
(***************************************************************************)
\* the contract after a set-up that registered the catalogue project "P1"
\* with SupplyCap credits at price 0 and minted one credit to the owner
Stocked ==
    /\ _owner = ALICE
    /\ _paused = FALSE
    /\ _balances = [a \in Address |-> IF a = ALICE THEN toDecimals(1) ELSE 0]
    /\ _totalSupply = toDecimals(1)
    /\ totalRetired = 0
    /\ retiredBalances = [a \in Address |-> 0]
    /\ projects = [p \in ProjectKeys |->
            IF p = "P1"
            THEN [projectId |-> "P1", methodology |-> "VCS",
                  location |-> "Kenya",
                  totalCredits |-> toDecimals(SupplyCap),
                  availableCredits |-> toDecimals(SupplyCap) - toDecimals(1),
                  isActive |-> TRUE, developer |-> ALICE,
                  pricePerCredit |-> 0]
            ELSE NoProject]
    /\ funds = [a \in Address |-> IF a \in Senders THEN InitialFunds ELSE 0]
    /\ totalMinted = toDecimals(1)
    /\ lastCall = [op |-> "mint", ok |-> TRUE, err |-> "", ret |-> NoRet]

\* both components mounted: the Admin list loaded from localStorage, the
\* Marketplace loaded from the contract
ClientInit ==
    /\ Deployed \/ Stocked
    /\ operatorId = _owner
    /\ ecocreditx_projects \in SavedLists
    /\ projectsState = ecocreditx_projects
    /\ closure = <<>>
    /\ pc = "idle"
    /\ pollCount = 0
    /\ guardianInstance = NoStatus
    /\ guardianStatus = NoStatus
    /\ message = ""
    /\ txLog = <<>>
    /\ marketProjects = loadMarketplaceData
    /\ userPortfolio = [credits |-> fromDecimals(_balances[operatorId])]
    /\ transactions = <<>>
    /\ marketMessage = ""
    /\ hcsTopicId = TRUE
    /\ hcsLog = <<>>
    /\ clicks = 0
    /\ SetupUnused

\* the handlers of both components; the Marketplace's balance query and the
\* publication of the retirement log succeed here, MarketSpec has them fail
ClientNext ==
    \/ \E c \in {1, 2}, accepted \in BOOLEAN :
          submitProjectToGuardian(c, accepted)
    \/ \E vc \in ValidatedCredits : Guardian_review(vc)
    \/ \E answer \in Answers, t \in ClockPeriods : poll(answer, t)
    \/ \E tr \in Transports, throws \in BOOLEAN :
          handleProjectApproval_register(tr, throws)
    \/ \E tr \in Transports, throws \in BOOLEAN :
          handleProjectApproval_mint(tr, throws)
    \/ \E i \in DOMAIN marketProjects, a \in {0, 1}, tr \in Transports,
          throws \in BOOLEAN :
          handlePurchaseCredits(i, a, tr, throws, TRUE)
    \/ \E a \in {0, 1}, r \in Reasons, tr \in Transports,
          throws \in BOOLEAN :
          handleRetireCredits(a, r, tr, throws, TRUE, TRUE)

ClientSpec == ClientInit /\ [][ClientNext]_vars

(***************************************************************************)
(* Properties of the Admin component's submission and poller.              *)
(***************************************************************************)
\* the calls of the adapter's method op made for the submitted project
CallsOf(op) ==
    {i \in DOMAIN txLog :
        txLog[i].op = op /\ txLog[i].projectId = NewProjectId}

(***************************************************************************)
(* C15: when the poller has received APPROVED for the submitted project    *)
(* and its session is over, it has called registerProject for that         *)
(* project, and if a registration succeeded it has called mint.            *)
(***************************************************************************)
C15_ApprovedIsRegistered ==
    pc = "stopped" /\ guardianStatus.status = "APPROVED" =>
        /\ CallsOf("registerProject") # {}
        /\ (\E i \in CallsOf("registerProject") : txLog[i].receipt = "SUCCESS")
                => CallsOf("mint") # {}

(***************************************************************************)
(* C16: when the poller receives REJECTED, the session is over, no         *)
(* registerProject and no mint was or is called for the project, and the   *)
(* project is not in the contract's registry.                              *)
(***************************************************************************)
C16_RejectedIsNotRegistered ==
    guardianStatus.status = "REJECTED" =>
        /\ pc = "stopped"
        /\ CallsOf("registerProject") = {}
        /\ CallsOf("mint") = {}
        /\ ~projects[NewProjectId].isActive

\* a rejection received on a later poll, for a project whose id the list
\* the poller works on holds, and the failure shown to the user
C16_Witness ==
    /\ guardianStatus.status = "REJECTED"
    /\ pollCount > 2
    /\ find(closure, NewProjectId) # {}
    /\ message = "error"

(***************************************************************************)
(* The poller under the scheduling the runtime gives it: a timer that was  *)
(* set fires, and an awaited adapter call settles.                         *)
(***************************************************************************)
AdminFairSpec ==
    /\ AdminInit
    /\ [][AdminNext]_vars
    /\ WF_vars(\E answer \in Answers, t \in ClockPeriods : poll(answer, t))
    /\ WF_vars(\E tr \in Transports, throws \in BOOLEAN :
                    handleProjectApproval_register(tr, throws))
    /\ WF_vars(\E tr \in Transports, throws \in BOOLEAN :
                    handleProjectApproval_mint(tr, throws))

(***************************************************************************)
(* C17: a polling session makes at most maxPolls = 20 status queries,      *)
(* whatever the responses; it makes no query after it received APPROVED or *)
(* REJECTED; when the 20th query too returns a status that is not final,   *)
(* the session stops with no call of the adapter and no change of the      *)
(* message shown; and every session that started stops.                    *)
(***************************************************************************)
C17_PollingBounded ==
    /\ [](pollCount <= maxPolls)
    /\ [][guardianStatus.status \in {"APPROVED", "REJECTED"} =>
            pollCount' = pollCount]_vars
    /\ [][/\ pollCount' = maxPolls
          /\ pollCount = maxPolls - 1
          /\ guardianStatus'.status \notin {"APPROVED", "REJECTED"}
          => /\ pc' = "stopped"
             /\ txLog' = txLog
             /\ txLog = <<>>
             /\ message' = message
             /\ message # "error"]_vars
    /\ [][pc = "stopped" => pc' = "stopped" /\ pollCount' = pollCount]_vars
    /\ (pc = "polling" ~> pc = "stopped")

\* twenty queries were made, none with a final status, and the session is
\* over without a call of the adapter
C17_Witness ==
    /\ pollCount = maxPolls
    /\ guardianStatus.status = "VALIDATION"
    /\ pc = "stopped"
    /\ txLog = <<>>
    /\ message = "success"

\* the place of a local status in the order of the state machine
StageOf(status) ==
    CASE status = "submitted" -> 1
      [] status = "under_review" -> 2
      [] status = "validation" -> 3
      [] status \in {"approved", "rejected"} -> 4
      [] OTHER -> 0

\* the statuses the list records for the submitted project
Recorded(list) == {list[i].status : i \in find(list, NewProjectId)}

HistoryShown == 10

\* the history localStorage may hold for the account when the component is
\* mounted: none, and the records of HistoryShown purchases of earlier
\* sessions
StoredHistories ==
    {<<>>,
     [i \in 1..HistoryShown |->
        [type |-> "purchase", projectId |-> "P1", amount |-> 1]]}

MarketInit ==
    /\ Stocked
    /\ operatorId = _owner
    /\ ecocreditx_projects = <<>>
    /\ projectsState = <<>>
    /\ closure = <<>>
    /\ pc = "idle"
    /\ pollCount = 0
    /\ guardianInstance = NoStatus
    /\ guardianStatus = NoStatus
    /\ message = ""
    /\ txLog = <<>>
    /\ marketProjects = loadMarketplaceData
    /\ userPortfolio = [credits |-> fromDecimals(_balances[operatorId])]
    /\ transactions \in StoredHistories
    /\ marketMessage = ""
    /\ hcsTopicId \in BOOLEAN
    /\ hcsLog = <<>>
    /\ clicks = 0
    /\ SetupUnused

MarketNext ==
    \/ \E i \in DOMAIN marketProjects, a \in {0, 1}, tr \in Transports,
          throws \in BOOLEAN, queried \in BOOLEAN :
          handlePurchaseCredits(i, a, tr, throws, queried)
    \/ \E a \in {0, 1}, r \in Reasons, tr \in Transports,
          throws \in BOOLEAN, queried \in BOOLEAN, published \in BOOLEAN :
          handleRetireCredits(a, r, tr, throws, queried, published)

MarketSpec == MarketInit /\ [][MarketNext]_vars

(***************************************************************************)
(* The registry with two projects: the owner registers "P1" and "P2" for   *)
(* either developer, credits are minted and bought in shares of a quarter  *)
(* of the cap, held, transferred and retired.                              *)
(***************************************************************************)
Share == MAX_SUPPLY \div 4
Registered == {"P1", "P2"}
Holders == {ALICE, BOB}

RegistryNext ==
    \/ /\ \E p \in Registered, d \in Holders, pr \in {1, 2} :
             registerProject(_owner, p, d, "Verra VCS 2023", "Kenya",
                             2 * Share, pr)
       /\ UNCHANGED clientVars
    \/ /\ \E to \in Holders, p \in Registered : mint(_owner, to, Share, p)
       /\ UNCHANGED clientVars
    \/ /\ \E s \in Holders, p \in Registered, v \in {0, 1} :
             purchaseCredits(s, p, Share, v)
       /\ UNCHANGED clientVars
    \/ /\ \E s \in Holders : retire(s, Share, "offset")
       /\ UNCHANGED clientVars
    \/ /\ \E s \in Holders, to \in Holders : transfer(s, to, Share)
       /\ UNCHANGED clientVars
    \/ /\ getPlatformStats
       /\ UNCHANGED clientVars
    \/ /\ withdraw(_owner)
       /\ UNCHANGED clientVars

RegistrySpec == Init /\ [][RegistryNext]_vars

(***************************************************************************)
(* Properties of the client's calls and of its local view.                 *)
(***************************************************************************)
\* the adapter's calls of the methods in ops, of any project
CallsTo(ops) == {i \in DOMAIN txLog : txLog[i].op \in ops}

\* the actions the user has asked of the Marketplace so far
MarketClicks == IF pc = "idle" THEN clicks ELSE clicks - 1

(***************************************************************************)
(* C19: no state-changing call of the adapter submits its transaction more *)
(* than once, whatever its outcome, and the handlers call the adapter no   *)
(* more often than the user acts: at most one purchaseCredits or           *)
(* retireCredits per purchase or retirement asked for, and at most one     *)
(* registerProject and one mint per project submitted.                     *)
(***************************************************************************)
C19_NoAutoRetry ==
    /\ \A i \in DOMAIN txLog : txLog[i].submissions <= 1
    /\ Cardinality(CallsTo({"purchaseCredits", "retireCredits"}))
            <= MarketClicks
    /\ Cardinality(CallsTo({"registerProject"})) <= clicks - MarketClicks
    /\ Cardinality(CallsTo({"mint"})) <= clicks - MarketClicks

\* a purchase whose transaction was submitted and failed, and the purchase
\* the user asked for next, submitted once and successful
C19_Witness ==
    /\ Len(txLog) = 2
    /\ clicks = 2
    /\ txLog[1].op = "purchaseCredits"
    /\ txLog[1].submissions = 1
    /\ txLog[1].receipt \in {"FAILED", "THROWN"}
    /\ txLog[2].op = "purchaseCredits"
    /\ txLog[2].submissions = 1
    /\ txLog[2].receipt = "SUCCESS"

Drawn ==
    SumOver([p \in ProjectKeys |->
                projects[p].totalCredits - projects[p].availableCredits],
            ProjectKeys)

(***************************************************************************)
(* C23: in every reachable state the total supply plus the credits retired *)
(* equals the sum over the projects of totalCredits - availableCredits,    *)
(* and a transfer between accounts changes neither side.                   *)
(***************************************************************************)
C23_CreditConservation ==
    /\ [](_totalSupply + totalRetired = Drawn)
    /\ [][lastCall'.op = "transfer" =>
            UNCHANGED <<_totalSupply, totalRetired, projects>>]_vars

\* credits of both projects are out, some were retired, and the last call
\* moved credits between accounts
C23_Witness ==
    /\ lastCall.op = "transfer"
    /\ lastCall.ok
    /\ totalRetired > 0
    /\ _totalSupply > 0
    /\ \A p \in Registered :
          projects[p].availableCredits < projects[p].totalCredits

(***************************************************************************)
(* C24: in every reachable state totalRetired is the sum of the accounts'  *)
(* retiredBalances, and getPlatformStats returns the total supply, the     *)
(* credits retired and 0, however many projects are registered.            *)
(***************************************************************************)
C24_RetiredTotalAndStats ==
    /\ totalRetired = SumOver(retiredBalances, Address)
    /\ lastCall.op = "getPlatformStats" =>
            /\ lastCall.ok
            /\ lastCall.ret = <<_totalSupply, totalRetired, 0>>

\* the statistics read when two projects are registered and both accounts
\* have retired credits
C24_Witness ==
    /\ lastCall.op = "getPlatformStats"
    /\ \A p \in Registered : projects[p].isActive
    /\ \A a \in Holders : retiredBalances[a] > 0
    /\ _totalSupply > 0

(***************************************************************************)
(* C25: a successful purchaseCredits of a positive amount from a project   *)
(* whose pricePerCredit is positive forwards a positive payment to the     *)
(* project's developer.                                                    *)
(***************************************************************************)
C25_NoFreeCredits ==
    [][lastCall'.op = "purchaseCredits" /\ lastCall'.ok =>
        \A s \in Holders, p \in Registered, v \in {0, 1} :
            /\ purchaseCredits(s, p, Share, v)
            /\ projects[p].pricePerCredit > 0
            => totalPriceOf(Share, projects[p].pricePerCredit) > 0]_vars

(***************************************************************************)
(* C26: the contract holds no payment in any reachable state; a successful *)
(* purchaseCredits moves the price from the buyer to the developer and     *)
(* returns the rest of the attached payment; withdraw called by the owner  *)
(* fails with 'No balance to withdraw'.                                    *)
(***************************************************************************)
C26_NothingRetained ==
    /\ [](funds[SELF] = 0)
    /\ [][lastCall'.op = "purchaseCredits" /\ lastCall'.ok =>
            \A s \in Senders, p \in ProjectIds, a \in Amounts, v \in Values :
                purchaseCredits(s, p, a, v) =>
                    LET totalPrice ==
                            totalPriceOf(a, projects[p].pricePerCredit)
                        developer == projects[p].developer
                    IN  funds' = [x \in Address |->
                            funds[x]
                            - (IF x = s THEN totalPrice ELSE 0)
                            + (IF x = developer THEN totalPrice ELSE 0)]]_vars
    /\ [][lastCall'.op = "withdraw" =>
            /\ ~lastCall'.ok
            /\ UNCHANGED storage
            /\ withdraw(_owner) => lastCall'.err = "No balance to withdraw"]_vars

\* the owner's withdraw has just failed after a purchase that paid a
\* developer and refunded the buyer
C26_Witness ==
    /\ lastCall.op = "withdraw"
    /\ lastCall.err = "No balance to withdraw"
    /\ \E d \in Address, b \in Address :
          /\ d # b
          /\ funds[d] > InitialFunds
          /\ funds[b] < InitialFunds
          /\ _balances[b] > 0

(***************************************************************************)
(* Properties of the Marketplace.                                          *)
(***************************************************************************)
\* this step is a call of the adapter's method op that saw a SUCCESS receipt
Succeeds(op) ==
    /\ Len(txLog') = Len(txLog) + 1
    /\ txLog'[Len(txLog')].op = op
    /\ txLog'[Len(txLog')].receipt = "SUCCESS"

(***************************************************************************)
(* C21: a message is published to the consensus topic only in a step in    *)
(* which retireCredits saw its retire transaction's receipt report         *)
(* SUCCESS, and it names the account, the amount, the reason and the       *)
(* transaction; and every retireCredits that saw SUCCESS has retired the   *)
(* credits in the contract and reports success to its caller, whether the  *)
(* message was published or not.                                           *)
(***************************************************************************)
C21_LogFireAndForget ==
    /\ [][hcsLog' # hcsLog =>
            /\ Succeeds("retireCredits")
            /\ \E amount \in {1}, reason \in Reasons :
                  hcsLog' = Append(hcsLog,
                      [account |-> operatorId, amount |-> amount,
                       reason |-> reason, transactionId |-> Len(txLog')])]_vars
    /\ [][Succeeds("retireCredits") =>
            /\ totalRetired' > totalRetired
            /\ retiredBalances'[operatorId] > retiredBalances[operatorId]
            /\ marketMessage' = "success"
            /\ Len(transactions') = Len(transactions) + 1
            /\ transactions'[1].type = "retirement"]_vars

\* a retirement that stands in the contract and in the history although
\* its log message was not published
C21_Witness ==
    /\ Len(txLog) > 0
    /\ txLog[Len(txLog)].op = "retireCredits"
    /\ txLog[Len(txLog)].receipt = "SUCCESS"
    /\ hcsLog = <<>>
    /\ totalRetired > 0
    /\ Len(transactions) > 0
    /\ transactions[1].type = "retirement"
    /\ marketMessage = "success"

\* the first n records of a list
Take(list, n) == SubSeq(list, 1, IF Len(list) < n THEN Len(list) ELSE n)

(***************************************************************************)
(* C22: the stored transaction history of the account never holds more     *)
(* than 10 records, and a step that adds a record puts it first and keeps  *)
(* the most recent of the others, dropping the oldest.                     *)
(***************************************************************************)
C22_HistoryCapped ==
    /\ [](Len(transactions) <= HistoryShown)
    /\ [][transactions' # transactions =>
            transactions' =
                Take(<<transactions'[1]>> \o transactions, HistoryShown)]_vars

(***************************************************************************)
(* C27: registerProject or mint is called for the submitted project, or is *)
(* about to be, only when the validation service has the project's         *)
(* instance as APPROVED; and a polling session runs only for a submission  *)
(* the service accepted.                                                   *)
(***************************************************************************)
C27_OnlyServiceApproval ==
    /\ (\/ CallsOf("registerProject") # {}
        \/ CallsOf("mint") # {}
        \/ pc \in {"approval", "minting"})
            => guardianInstance.status = "APPROVED"
    /\ pc # "idle" => guardianInstance # NoStatus

(***************************************************************************)
(* C28: once the form is submitted, every step keeps every project of the  *)
(* in-memory list and of the persisted list in its place, the submitted    *)
(* project included, and changes at most the project of the submitted id.  *)
(***************************************************************************)
C28_SavedProjectStays ==
    [][pc # "idle" =>
        /\ pc' # "idle"
        /\ \A i \in DOMAIN projectsState :
              /\ i \in DOMAIN projectsState'
              /\ projectsState'[i].projectId = projectsState[i].projectId
              /\ projectsState[i].projectId # NewProjectId
                    => projectsState'[i] = projectsState[i]
        /\ \A i \in DOMAIN ecocreditx_projects :
              /\ i \in DOMAIN ecocreditx_projects'
              /\ ecocreditx_projects'[i].projectId
                    = ecocreditx_projects[i].projectId
              /\ ecocreditx_projects[i].projectId # NewProjectId
                    => ecocreditx_projects'[i] = ecocreditx_projects[i]]_vars

(***************************************************************************)
(* C29: after a purchase through the Marketplace whose receipt reports     *)
(* SUCCESS, the availableCredits the Marketplace shows for each project is *)
(* the availableCredits the contract's getProject returns for it.          *)
(***************************************************************************)
C29_LocalAgreesWithLedger ==
    [][Succeeds("purchaseCredits") =>
        \A i \in DOMAIN marketProjects' :
            marketProjects'[i].availableCredits
                = projects'[marketProjects'[i].projectId].availableCredits]_vars

(***************************************************************************)
(* Admin.setupDemoProjects and the addRealProject script                   *)
(***************************************************************************)
\* Admin's state apart from the message shown
pollerVars == <<projectsState, ecocreditx_projects, closure, pc, pollCount,
                guardianInstance, guardianStatus>>

\* the ids of the projects setupDemoProjects registers, and the id the
\* script registers
realProjects == <<"P1", "P2">>
ScriptProjectId == "P3"
\* the credits of the script's project, which it passes unscaled
ScriptCredits == MAX_SUPPLY \div 2

\* setupDemoProjects up to its loop
setupDemoProjects_begin ==
    /\ setupPc = "idle"
    /\ loading' = TRUE
    /\ message' = "info"
    /\ setupIndex' = 1
    /\ setupPc' = "register"
    /\ UNCHANGED <<ledgerVars, operatorId, pollerVars, txLog, marketVars,
                   clicks, scriptPc>>

\* the loop goes on to the next project; after the last one the success
\* message is shown and the finally block resets loading
setupDemoProjects_next ==
    IF setupIndex < Len(realProjects)
    THEN /\ setupIndex' = setupIndex + 1
         /\ setupPc' = "register"
         /\ UNCHANGED <<loading, message>>
    ELSE /\ setupPc' = "done"
         /\ message' = "success"
         /\ loading' = FALSE
         /\ UNCHANGED setupIndex

\* the loop body with the mint attempted whatever the registration's receipt
setupDemoProjects_register_mintsAnyway(transport, throws) ==
    /\ setupPc = "register"
    /\ hederaClient_registerProject(
            [projectId |-> realProjects[setupIndex], methodology |-> "VCS",
             location |-> "Kenya", totalCredits |-> 1, pricePerCredit |-> 0],
            transport, throws)
    /\ setupPc' = "mint"
    /\ UNCHANGED <<setupIndex, loading, message>>
    /\ UNCHANGED <<operatorId, pollerVars, marketVars, clicks, scriptPc>>

\* the loop body up to the receipt of registerProject: a registration that
\* throws or reports failure ends the work on this project
setupDemoProjects_register(transport, throws) ==
    /\ setupPc = "register"
    /\ hederaClient_registerProject(
            [projectId |-> realProjects[setupIndex], methodology |-> "VCS",
             location |-> "Kenya", totalCredits |-> 1, pricePerCredit |-> 0],
            transport, throws)
    /\ IF getReceipt(transport, throws) = "SUCCESS"
       THEN /\ setupPc' = "mint"
            /\ UNCHANGED <<setupIndex, loading, message>>
       ELSE setupDemoProjects_next
    /\ UNCHANGED <<operatorId, pollerVars, marketVars, clicks, scriptPc>>

\* the loop body from mintCredits on: its result is not read, its exception
\* is caught
setupDemoProjects_mint(transport, throws) ==
    /\ setupPc = "mint"
    /\ hederaClient_mintCredits(operatorId, 1, realProjects[setupIndex],
                                transport, throws)
    /\ setupDemoProjects_next
    /\ UNCHANGED <<operatorId, pollerVars, marketVars, clicks, scriptPc>>

\* addRealProject up to the receipt of registerProject (the project's price
\* plays no part in the calls and is 0 here)
addRealProject_register(transport, throws) ==
    /\ scriptPc = "idle"
    /\ execute(registerProject(operatorId, ScriptProjectId, operatorId,
                               "REDD+ VCS Standard", "Amazon Basin, Brazil",
                               ScriptCredits, 0),
               "registerProject", ScriptProjectId, transport, throws)
    /\ scriptPc' = IF getReceipt(transport, throws) = "SUCCESS"
                   THEN "mint" ELSE "done"
    /\ UNCHANGED <<operatorId, adminVars, marketVars, clicks, loading,
                   setupPc, setupIndex>>

\* addRealProject from the mint on
addRealProject_mint(transport, throws) ==
    /\ scriptPc = "mint"
    /\ execute(mint(operatorId, operatorId, ScriptCredits, ScriptProjectId),
               "mint", ScriptProjectId, transport, throws)
    /\ scriptPc' = "done"
    /\ UNCHANGED <<operatorId, adminVars, marketVars, clicks, loading,
                   setupPc, setupIndex>>

\* the contract as deployed, the Admin component mounted, the adapter and
\* the script signing as the owner or as another account
SetupInit ==
    /\ Deployed
    /\ operatorId \in {ALICE, BOB}
    /\ ecocreditx_projects = <<>>
    /\ projectsState = <<>>
    /\ closure = <<>>
    /\ pc = "idle"
    /\ pollCount = 0
    /\ guardianInstance = NoStatus
    /\ guardianStatus = NoStatus
    /\ message = ""
    /\ txLog = <<>>
    /\ marketProjects = <<>>
    /\ userPortfolio = [credits |-> 0]
    /\ transactions = <<>>
    /\ marketMessage = ""
    /\ hcsTopicId = TRUE
    /\ hcsLog = <<>>
    /\ clicks = 0
    /\ SetupUnused

SetupNext ==
    \/ setupDemoProjects_begin
    \/ \E tr \in Transports, throws \in BOOLEAN :
          setupDemoProjects_register(tr, throws)
    \/ \E tr \in Transports, throws \in BOOLEAN :
          setupDemoProjects_mint(tr, throws)
    \/ \E tr \in Transports, throws \in BOOLEAN :
          addRealProject_register(tr, throws)
    \/ \E tr \in Transports, throws \in BOOLEAN :
          addRealProject_mint(tr, throws)

\* every awaited call settles, so a run that was started goes on
SetupSpec ==
    /\ SetupInit
    /\ [][SetupNext]_vars
    /\ WF_vars(\E tr \in Transports, throws \in BOOLEAN :
                  setupDemoProjects_register(tr, throws))
    /\ WF_vars(\E tr \in Transports, throws \in BOOLEAN :
                  setupDemoProjects_mint(tr, throws))
    /\ WF_vars(\E tr \in Transports, throws \in BOOLEAN :
                  addRealProject_register(tr, throws))
    /\ WF_vars(\E tr \in Transports, throws \in BOOLEAN :
                  addRealProject_mint(tr, throws))

\* the calls of the adapter's method op made for the project p
CallsFor(op, p) ==
    {i \in DOMAIN txLog : txLog[i].op = op /\ txLog[i].projectId = p}

(***************************************************************************)
(* C30: every mint call for a project follows a registerProject call for   *)
(* the same project whose receipt reported SUCCESS; when setupDemoProjects *)
(* is done it has attempted the registration of every one of its projects  *)
(* and the mint of every project it registered, and loading is false; and  *)
(* a run of setupDemoProjects that was started gets done.                  *)
(***************************************************************************)
C30_MintAfterRegistration ==
    /\ [](\A j \in DOMAIN txLog :
            txLog[j].op = "mint" =>
                \E i \in 1..(j - 1) :
                    /\ txLog[i].op = "registerProject"
                    /\ txLog[i].projectId = txLog[j].projectId
                    /\ txLog[i].receipt = "SUCCESS")
    /\ [](setupPc = "done" =>
            /\ loading = FALSE
            /\ \A k \in DOMAIN realProjects :
                  /\ CallsFor("registerProject", realProjects[k]) # {}
                  /\ (\E i \in CallsFor("registerProject", realProjects[k]) :
                         txLog[i].receipt = "SUCCESS")
                        => CallsFor("mint", realProjects[k]) # {})
    /\ (setupPc # "idle" ~> (setupPc = "done" /\ loading = FALSE))

\* setupDemoProjects is done: the registration of its first project failed,
\* its second project was registered and its mint attempted and failed, and
\* the script has registered its project and minted
C30_Witness ==
    /\ setupPc = "done"
    /\ scriptPc = "done"
    /\ \A i \in CallsFor("registerProject", realProjects[1]) :
          txLog[i].receipt # "SUCCESS"
    /\ \E i \in CallsFor("registerProject", realProjects[2]) :
          txLog[i].receipt = "SUCCESS"
    /\ \E i \in CallsFor("mint", realProjects[2]) :
          txLog[i].receipt # "SUCCESS"
    /\ \E i \in CallsFor("mint", ScriptProjectId) :
          txLog[i].receipt = "SUCCESS"

====
